---- MODULE Spec2Model ----
(***************************************************************************)
(* A model of tastytrade-cli (src/src/main.rs): the portfolio built at     *)
(* bootstrap, the navigation state of the table, the tokio::select! event  *)
(* loop and the row generation of ui().                                    *)
(*                                                                         *)
(* Decimal values are integers counting thousandths (15.50 is 15500).      *)
(* f64 values are records: a finite value in thousandths, NaN or +inf.     *)
(* Option<usize> is a sequence: <<>> is None and <<i>> is Some(i).         *)
(* Amounts and multipliers are whole numbers. Quote events arrive for the   *)
(* share symbols and Greeks events for the option symbol, each also for a   *)
(* symbol that keys no record.                                             *)
(***************************************************************************)
EXTENDS Integers, Sequences, FiniteSets, TLC

VARIABLES
    positions,   \* the downloaded positions, in download order (main.rs:171-177)
    groups,      \* App.groups: underlying symbol -> UnderlyingGroup
    balances,    \* App.balances: account number -> cash balance
    selected,    \* App.state.selected(): Option<usize>
    num_lines,   \* App.num_lines
    pc,          \* where main() stands
    panic,       \* "" or the panic that unwound main()
    terminal,    \* raw mode / alternate screen / cursor of the tty
    frame,       \* the rows of the last frame drawn
    hist,        \* the last key presses with the navigation state each one found
    event        \* the event this iteration of the loop handled, until its frame is drawn

vars == <<positions, groups, balances, selected, num_lines, pc, panic, terminal, frame,
          hist, event>>

----------------------------------------------------------------------------
(* Bounds of the model *)

\* at most this many positions are downloaded at bootstrap
MaxPositions == 3
\* usize wraps at 2^UsizeBits in the model (the program's usize has 64 bits)
UsizeBits == 3

----------------------------------------------------------------------------
(* Option<usize> *)

None == <<>>
Some(i) == <<i>>
IsSome(o) == Len(o) = 1
Unwrap(o) == o[1]

(* f64 *)

F(n) == [cls |-> "finite", v |-> n]
NaN == [cls |-> "nan", v |-> 0]
PosInf == [cls |-> "inf", v |-> 0]

\* a + b on f64 (no negative infinity occurs in the model)
F64Add(a, b) ==
    IF a.cls = "nan" \/ b.cls = "nan" THEN NaN
    ELSE IF a.cls = "inf" \/ b.cls = "inf" THEN PosInf
    ELSE F(a.v + b.v)

\* a / 2.0 on f64; the finite sums of the model are even
F64Half(a) == IF a.cls = "finite" THEN F(a.v \div 2) ELSE a

\* Decimal::from_f64: None for NaN and the infinities
DecimalFromF64(x) == IF x.cls = "finite" THEN Some(x.v) ELSE None

\* Option::unwrap_or_default on Option<Decimal>: Decimal::default() is 0
UnwrapOrDefault(o) == IF IsSome(o) THEN Unwrap(o) ELSE 0

(* Decimal *)

\* num / den rounded to the nearest integer, ties to the even one (den > 0)
RoundHalfEven(num, den) ==
    LET q == num \div den
        r == num % den
    IN  IF 2 * r < den THEN q
        ELSE IF 2 * r > den THEN q + 1
        ELSE IF q % 2 = 0 THEN q ELSE q + 1

\* Decimal::round_dp(2): banker's rounding to hundredths
RoundDp2(x) == 10 * RoundHalfEven(x, 10)

----------------------------------------------------------------------------
(* The inputs of bootstrap *)

\* BTreeMap iteration order of the keys that occur
SymbolOrder == <<"AAPL", "MSFT">>
StreamerOrder == <<".AAPL", ".AAPL_C", ".MSFT">>
AccountOrder == <<"A1", "A2", "A3">>

\* tasty.accounts()
Accounts == <<"A1", "A2">>

\* account.balance().cash_balance
CashAtBootstrap(a) == IF a = "A1" THEN 500000 ELSE 700000

\* every position paired with the first streamer symbol
StreamerSymbolOf_First(symbol) == ".AAPL"

\* tasty.get_streamer_symbol(instrument_type, symbol)
StreamerSymbolOf(symbol) ==
    CASE symbol = "AAPL" -> ".AAPL"
      [] symbol = "AAPL_C" -> ".AAPL_C"
      [] OTHER -> ".MSFT"

\* what account.positions() can return, over all accounts
PositionPool == <<
    [account |-> "A1", symbol |-> "AAPL", underlying_symbol |-> "AAPL",
     average_open_price |-> 15005, close_price |-> 15500,
     quantity |-> 5, multiplier |-> 1, quantity_direction |-> "Long"],
    [account |-> "A1", symbol |-> "AAPL_C", underlying_symbol |-> "AAPL",
     average_open_price |-> 3500, close_price |-> 3000,
     quantity |-> 2, multiplier |-> 100, quantity_direction |-> "Short"],
    [account |-> "A2", symbol |-> "AAPL", underlying_symbol |-> "AAPL",
     average_open_price |-> 14000, close_price |-> 15500,
     quantity |-> 3, multiplier |-> 1, quantity_direction |-> "Long"],
    \* a position whose direction is Zero while its quantity is not: the sign rule
    \* for Zero shows only on such a record
    [account |-> "A2", symbol |-> "MSFT", underlying_symbol |-> "MSFT",
     average_open_price |-> 0, close_price |-> 0,
     quantity |-> 1, multiplier |-> 1, quantity_direction |-> "Zero"] >>

\* the positions of the pool picked by the index set S, in download order
RECURSIVE PickPositions(_, _)
PickPositions(S, i) ==
    IF i > Len(PositionPool) THEN <<>>
    ELSE (IF i \in S THEN <<PositionPool[i]>> ELSE <<>>) \o PickPositions(S, i + 1)

\* the keys of S in BTreeMap order
SortedKeys(S, order) == SelectSeq(order, LAMBDA k : k \in S)

\* m with key k set to v (BTreeMap::insert)
MapInsert(m, k, v) == [x \in DOMAIN m \cup {k} |-> IF x = k THEN v ELSE m[x]]

EmptyMap == [x \in {} |-> 0]

\* #[derive(Default)] struct UnderlyingGroup
DefaultGroup == [open |-> FALSE, records |-> EmptyMap]

\* the PriceRecord built from one position
PriceRecordOf(pos) ==
    [symbol |-> pos.symbol,
     open |-> RoundDp2(pos.average_open_price),
     current |-> RoundDp2(pos.close_price),
     amount |-> pos.quantity,
     multiplier |-> pos.multiplier,
     direction |-> pos.quantity_direction,
     greeks |-> [theta |-> F(0), delta |-> F(0)]]

\* records.entry(underlying).or_default().records.insert(stream_sym, record)
InsertRecord(records, pos) ==
    LET u == pos.underlying_symbol
        g == IF u \in DOMAIN records THEN records[u] ELSE DefaultGroup
    IN  MapInsert(records, u,
            [g EXCEPT !.records =
                MapInsert(g.records, StreamerSymbolOf(pos.symbol), PriceRecordOf(pos))])

\* the loop over positions.iter().zip(stream_syms.iter())
RECURSIVE BuildRecords(_, _)
BuildRecords(ps, records) ==
    IF ps = <<>> THEN records
    ELSE BuildRecords(Tail(ps), InsertRecord(records, Head(ps)))

\* balances.insert(account.number(), cash_balance) for every account
BootstrapBalances == [a \in {Accounts[i] : i \in DOMAIN Accounts} |-> CashAtBootstrap(a)]

----------------------------------------------------------------------------
(* App *)

RECURSIVE SumSeq(_)
SumSeq(s) == IF s = <<>> THEN 0 ELSE Head(s) + SumSeq(Tail(s))

\* the groups in iteration order
GroupKeys(gs) == SortedKeys(DOMAIN gs, SymbolOrder)
RecordKeys(g) == SortedKeys(DOMAIN g.records, StreamerOrder)
RecordCount(g) == Cardinality(DOMAIN g.records)

\* update_num_lines without the test of group.open
UpdateNumLines_IgnoresOpen(gs) ==
    LET ks == GroupKeys(gs)
    IN  Len(ks) + SumSeq([i \in DOMAIN ks |-> RecordCount(gs[ks[i]])])

\* App::update_num_lines: the value it stores in num_lines
UpdateNumLines(gs) ==
    LET ks == GroupKeys(gs)
    IN  Len(ks) + SumSeq([i \in DOMAIN ks |->
                            IF gs[ks[i]].open THEN RecordCount(gs[ks[i]]) ELSE 0])

\* toggle_group that opens the group instead of flipping it
RECURSIVE ToggleWalk_Opens(_, _, _, _)
ToggleWalk_Opens(gs, ks, i, s) ==
    IF ks = <<>> THEN gs
    ELSE LET k == Head(ks)
         IN  IF i = s
             THEN [gs EXCEPT ![k].open = TRUE]
             ELSE ToggleWalk_Opens(gs, Tail(ks),
                             i + 1 + (IF gs[k].open THEN RecordCount(gs[k]) ELSE 0), s)

\* toggle_group that steps over the records of closed groups too
RECURSIVE ToggleWalk_CountsClosed(_, _, _, _)
ToggleWalk_CountsClosed(gs, ks, i, s) ==
    IF ks = <<>> THEN gs
    ELSE LET k == Head(ks)
         IN  IF i = s
             THEN [gs EXCEPT ![k].open = ~gs[k].open]
             ELSE ToggleWalk_CountsClosed(gs, Tail(ks), i + 1 + RecordCount(gs[k]), s)

\* the loop of App::toggle_group over the groups ks still to visit, the row counter at i
RECURSIVE ToggleWalk(_, _, _, _)
ToggleWalk(gs, ks, i, s) ==
    IF ks = <<>> THEN gs
    ELSE LET k == Head(ks)
         IN  IF i = s
             THEN [gs EXCEPT ![k].open = ~gs[k].open]
             ELSE ToggleWalk(gs, Tail(ks),
                             i + 1 + (IF gs[k].open THEN RecordCount(gs[k]) ELSE 0), s)

\* the groups after App::toggle_group with selection sel
ToggleGroup(gs, sel) ==
    IF ~IsSome(sel) THEN gs ELSE ToggleWalk(gs, GroupKeys(gs), 0, Unwrap(sel))

UsizeModulus == 2 ^ UsizeBits

\* next that stops at the last row instead of wrapping to 0
NextIndex_Clamps(sel, n1) ==
    IF IsSome(sel)
    THEN (IF Unwrap(sel) >= n1 THEN n1 ELSE Unwrap(sel) + 1)
    ELSE 0

\* next comparing with num_lines instead of num_lines - 1
NextIndex_OffByOne(sel, n1) ==
    IF IsSome(sel)
    THEN (IF Unwrap(sel) >= n1 + 1 THEN 0 ELSE Unwrap(sel) + 1)
    ELSE 0

\* the index App::next selects; n1 is the value of self.num_lines - 1
NextIndex(sel, n1) ==
    IF IsSome(sel)
    THEN (IF Unwrap(sel) >= n1 THEN 0 ELSE Unwrap(sel) + 1)
    ELSE 0

\* the index App::previous selects; n1 is the value of self.num_lines - 1
PreviousIndex(sel, n1) ==
    IF IsSome(sel)
    THEN (IF Unwrap(sel) = 0 THEN n1 ELSE Unwrap(sel) - 1)
    ELSE 0

\* App::get_record: the (group, streamer symbol) of the first record keyed by sym
GetRecord(gs, sym) ==
    LET ks == GroupKeys(gs)
        found == {n \in DOMAIN ks : sym \in DOMAIN gs[ks[n]].records}
    IN  IF found = {} THEN None
        ELSE LET n == CHOOSE m \in found : \A o \in found : m <= o
             IN  Some(ks[n])

----------------------------------------------------------------------------
(* ui: the rows of one frame *)

\* the sign taken as 1 for Long only
DirectionSign_OnlyLong(rec) == IF rec.direction = "Long" THEN 1 ELSE -1

\* -1 for a Short position, 1 for Long and Zero
DirectionSign(rec) == IF rec.direction = "Short" THEN -1 ELSE 1

\* the closure to_net of ui
ToNet(rec, value) == RoundDp2(value * rec.amount * rec.multiplier * DirectionSign(rec))

\* the fold of one group's records in the pre-pass of ui
GroupValue(g) ==
    LET ks == RecordKeys(g)
    IN  SumSeq([i \in DOMAIN ks |-> ToNet(g.records[ks[i]], g.records[ks[i]].current)])

\* the pre-pass of ui: the value of total before the cash section
PositionTotal(gs) ==
    LET ks == GroupKeys(gs)
    IN  SumSeq([i \in DOMAIN ks |-> GroupValue(gs[ks[i]])])

\* (value * 100 / total).round_dp(2), in hundredths of a percent; total is not 0.
\* value and total are whole hundredths, so the quotient of their tenths is exact.
PortPercent(value, total) ==
    IF total > 0 THEN RoundHalfEven((value \div 10) * 10000, total \div 10)
    ELSE RoundHalfEven((0 - (value \div 10)) * 10000, 0 - (total \div 10))

\* the panic, if any, that the body of the record loop raises for rec
RecordPanic(rec, total) ==
    IF ~IsSome(DecimalFromF64(rec.greeks.theta)) \/ ~IsSome(DecimalFromF64(rec.greeks.delta))
    THEN "unwrap on None"
    ELSE IF total = 0 THEN "division by zero" ELSE ""

\* the first panic raised while the rows of group g are built
GroupPanic(g, total) ==
    LET ks == RecordKeys(g)
        bad == {i \in DOMAIN ks : g.open /\ RecordPanic(g.records[ks[i]], total) # ""}
    IN  IF bad # {}
        THEN RecordPanic(g.records[ks[CHOOSE i \in bad : \A j \in bad : i <= j]], total)
        ELSE IF total = 0 THEN "division by zero" ELSE ""

\* the first panic raised by ui, "" when ui returns
UiPanic(gs) ==
    LET ks == GroupKeys(gs)
        total == PositionTotal(gs)
        bad == {i \in DOMAIN ks : GroupPanic(gs[ks[i]], total) # ""}
    IN  IF bad = {} THEN ""
        ELSE GroupPanic(gs[ks[CHOOSE i \in bad : \A j \in bad : i <= j]], total)

\* the cells of the row of one record of an open group
PositionRow(underlying, rec, total) ==
    [kind |-> "position",
     port |-> PortPercent(ToNet(rec, rec.current), total),
     name |-> IF rec.symbol = underlying THEN "SHARES" ELSE rec.symbol,
     current |-> RoundDp2(rec.current),
     amount |-> rec.amount * DirectionSign(rec),
     open |-> rec.open,
     profit |-> ToNet(rec, rec.current - rec.open),
     theta |-> ToNet(rec, Unwrap(DecimalFromF64(rec.greeks.theta))),
     delta |-> ToNet(rec, Unwrap(DecimalFromF64(rec.greeks.delta))),
     net_liq |-> ToNet(rec, rec.current)]

\* the header row of a group
GroupHeaderRow(underlying, g, total) ==
    LET ks == RecordKeys(g)
        profit_sum == SumSeq([i \in DOMAIN ks |->
                        ToNet(g.records[ks[i]], g.records[ks[i]].current - g.records[ks[i]].open)])
        net_liq_sum == GroupValue(g)
    IN  [kind |-> "group",
         port |-> PortPercent(net_liq_sum, total),
         name |-> underlying,
         profit |-> RoundDp2(profit_sum),
         net_liq |-> RoundDp2(net_liq_sum)]

\* the rows the flat_map closure yields for one group
GroupRows(underlying, g, total) ==
    LET ks == RecordKeys(g)
    IN  <<GroupHeaderRow(underlying, g, total)>> \o
        (IF g.open
         THEN [i \in DOMAIN ks |-> PositionRow(underlying, g.records[ks[i]], total)]
         ELSE <<>>)

RECURSIVE ConcatAll(_)
ConcatAll(ss) == IF ss = <<>> THEN <<>> ELSE Head(ss) \o ConcatAll(Tail(ss))

\* the rows of the table when ui does not panic
UiRows(gs, bals) ==
    LET ks == GroupKeys(gs)
        as == SortedKeys(DOMAIN bals, AccountOrder)
        position_total == PositionTotal(gs)
        total == position_total + SumSeq([i \in DOMAIN as |-> bals[as[i]]])
    IN  ConcatAll([i \in DOMAIN ks |-> GroupRows(ks[i], gs[ks[i]], position_total)])
        \o <<[kind |-> "blank"], [kind |-> "cash"]>>
        \o [i \in DOMAIN as |-> [kind |-> "account", name |-> as[i], balance |-> bals[as[i]]]]
        \o <<[kind |-> "blank"], [kind |-> "total", total |-> total]>>

\* the rows of the groups section, which the selection indexes: for each group its
\* header and, when it is open, one row per record
GroupSectionRows(gs) ==
    LET ks == GroupKeys(gs)
    IN  ConcatAll([i \in DOMAIN ks |->
            <<[kind |-> "group", group |-> ks[i]]>> \o
            (IF gs[ks[i]].open
             THEN [j \in DOMAIN RecordKeys(gs[ks[i]]) |->
                     [kind |-> "position", group |-> ks[i], record |-> RecordKeys(gs[ks[i]])[j]]]
             ELSE <<>>)])

\* f.render_stateful_widget(t, rects[0], &mut app.state): the row the table
\* highlights, the one at index selected, when there is one
HighlightedRow(rows, sel) ==
    IF IsSome(sel) /\ Unwrap(sel) < Len(rows) THEN Some(rows[Unwrap(sel) + 1]) ELSE None

----------------------------------------------------------------------------
(* The events the three sources deliver *)

\* the symbols Quote events arrive for, and those Greeks events arrive for; .UNKNOWN
\* keys no record
QuoteSymbols == {".AAPL", ".MSFT", ".UNKNOWN"}
GreeksSymbols == {".AAPL_C", ".UNKNOWN"}
BidPrices == {F(2400), NaN}
AskPrices == {F(2450), PosInf}
Thetas == {F(-120), NaN}
Deltas == {F(-300), PosInf}
EventAccounts == {"A1", "A3"}
EventCash == {450000}

\* the Quote arm: record.current = Decimal::from_f64((bid + ask) / 2.0).unwrap_or_default()
QuoteCurrent(rec, bid, ask) ==
    UnwrapOrDefault(DecimalFromF64(F64Half(F64Add(bid, ask))))

\* the Quote arm falling back to the first record when no record is keyed by sym
ApplyQuote_FallsBack(gs, sym, bid, ask) ==
    LET r == GetRecord(gs, sym)
        ks == GroupKeys(gs)
    IN  IF IsSome(r)
        THEN [gs EXCEPT ![Unwrap(r)].records[sym].current =
                    QuoteCurrent(gs[Unwrap(r)].records[sym], bid, ask)]
        ELSE IF ks = <<>> THEN gs
        ELSE LET k == ks[1]
                 f == RecordKeys(gs[k])[1]
             IN  [gs EXCEPT ![k].records[f].current = QuoteCurrent(gs[k].records[f], bid, ask)]

\* the Quote arm writing record.open instead of record.current
ApplyQuote_WritesOpen(gs, sym, bid, ask) ==
    LET r == GetRecord(gs, sym)
    IN  IF IsSome(r)
        THEN [gs EXCEPT ![Unwrap(r)].records[sym].open =
                    QuoteCurrent(gs[Unwrap(r)].records[sym], bid, ask)]
        ELSE gs

\* the quote_sub branch for Event { sym, data: Quote }
ApplyQuote(gs, sym, bid, ask) ==
    LET r == GetRecord(gs, sym)
    IN  IF IsSome(r)
        THEN [gs EXCEPT ![Unwrap(r)].records[sym].current =
                    QuoteCurrent(gs[Unwrap(r)].records[sym], bid, ask)]
        ELSE gs

\* the quote_sub branch for Event { sym, data: Greeks }
ApplyGreeks(gs, sym, theta, delta) ==
    LET r == GetRecord(gs, sym)
    IN  IF IsSome(r)
        THEN [gs EXCEPT ![Unwrap(r)].records[sym].greeks = [theta |-> theta, delta |-> delta]]
        ELSE gs

\* the balance arm updating only the accounts known at bootstrap
ApplyBalance_OnlyKnown(bals, account, cash) ==
    IF account \in DOMAIN bals THEN MapInsert(bals, account, cash) ELSE bals

\* app.balances.insert(bal.account_number.0, bal.cash_balance)
ApplyBalance(bals, account, cash) == MapInsert(bals, account, cash)

\* self.num_lines - 1 on usize: None stands for the overflow panic of a build with
\* overflow checks, the wrapped value is what a build without them computes
NumLinesMinusOne(n) ==
    IF n > 0 THEN {Some(n - 1)} ELSE {None, Some(UsizeModulus - 1)}

----------------------------------------------------------------------------
(* main *)

\* the navigation state a key press finds
NavSnapshot(key) ==
    [key |-> key, selected |-> selected, num_lines |-> num_lines,
     open |-> [k \in DOMAIN groups |-> groups[k].open]]

\* hist after one more key press: the last two presses that followed one another
Remember(h, e) == IF h = <<>> THEN <<e>> ELSE <<h[Len(h)], e>>

\* no event is being handled
NoEvent == [kind |-> "", key |-> ""]

\* the event a branch of select! received: its kind and the streamer symbol or
\* account number it names ("" when it names none)
Received(kind, key) == [kind |-> kind, key |-> key]

Init ==
    /\ \E S \in SUBSET (DOMAIN PositionPool) :
          /\ Cardinality(S) <= MaxPositions
          /\ positions = PickPositions(S, 1)
    /\ groups = BuildRecords(positions, EmptyMap)
    /\ balances = BootstrapBalances
    /\ selected = None
    /\ num_lines = 0
    /\ pc = "enable_raw_mode"
    /\ panic = ""
    /\ terminal = [raw_mode |-> FALSE, alternate_screen |-> FALSE, cursor_hidden |-> FALSE]
    /\ frame = <<>>
    /\ hist = <<>>
    /\ event = NoEvent

model == <<positions, groups, balances, selected, num_lines>>

\* enable_raw_mode()?
EnableRawMode ==
    /\ pc = "enable_raw_mode"
    /\ \E ok \in BOOLEAN :
          IF ok
          THEN /\ terminal' = [terminal EXCEPT !.raw_mode = TRUE]
               /\ pc' = "enter_alternate_screen"
          ELSE /\ pc' = "returned_err"
               /\ UNCHANGED terminal
    /\ UNCHANGED <<model, panic, frame>>
    /\ UNCHANGED hist
    /\ UNCHANGED event

\* execute!(stdout, EnterAlternateScreen)?
EnterAlternateScreen ==
    /\ pc = "enter_alternate_screen"
    /\ \E ok \in BOOLEAN :
          IF ok
          THEN /\ terminal' = [terminal EXCEPT !.alternate_screen = TRUE]
               /\ pc' = "terminal_new"
          ELSE /\ pc' = "returned_err"
               /\ UNCHANGED terminal
    /\ UNCHANGED <<model, panic, frame>>
    /\ UNCHANGED hist
    /\ UNCHANGED event

\* Terminal::new(backend)?
TerminalNew ==
    /\ pc = "terminal_new"
    /\ \E ok \in BOOLEAN : pc' = IF ok THEN "app_new" ELSE "returned_err"
    /\ UNCHANGED <<model, panic, terminal, frame>>
    /\ UNCHANGED hist
    /\ UNCHANGED event

\* App::new(records, balances) and EventStream::new()
AppNew ==
    /\ pc = "app_new"
    /\ selected' = None
    /\ num_lines' = UpdateNumLines(groups)
    /\ pc' = "select"
    /\ UNCHANGED <<positions, groups, balances, panic, terminal, frame>>
    /\ UNCHANGED hist
    /\ UNCHANGED event

\* quote_sub.get_event() yields Ok(Event { sym, data: Quote(quote) }) with these prices
QuoteStep(sym, bid, ask) ==
    /\ pc = "select"
    /\ groups' = ApplyQuote(groups, sym, bid, ask)
    /\ pc' = "draw"
    /\ hist' = <<>>
    /\ UNCHANGED <<positions, balances, selected, num_lines, panic, terminal, frame>>
    /\ event' = Received("quote", sym)

QuoteEvent ==
    \E sym \in QuoteSymbols, bid \in BidPrices, ask \in AskPrices : QuoteStep(sym, bid, ask)

\* quote_sub.get_event() yields Ok(Event { sym, data: Greeks(greeks) }) with these values
GreeksStep(sym, theta, delta) ==
    /\ pc = "select"
    /\ groups' = ApplyGreeks(groups, sym, theta, delta)
    /\ pc' = "draw"
    /\ hist' = <<>>
    /\ event' = Received("greeks", sym)
    /\ UNCHANGED <<positions, balances, selected, num_lines, panic, terminal, frame>>

GreeksEvent ==
    \E sym \in GreeksSymbols, theta \in Thetas, delta \in Deltas : GreeksStep(sym, theta, delta)

\* quote_sub.get_event() yields an Err, or an event with another payload
OtherDataEvent ==
    /\ pc = "select"
    /\ pc' = "draw"
    /\ UNCHANGED <<model, panic, terminal, frame>>
    /\ hist' = <<>>
    /\ event' = Received("data_other", "")

\* account_streamer.get_event() yields this AccountBalance message
BalanceStep(account, cash) ==
    /\ pc = "select"
    /\ balances' = ApplyBalance(balances, account, cash)
    /\ pc' = "draw"
    /\ hist' = <<>>
    /\ event' = Received("balance", account)
    /\ UNCHANGED <<positions, groups, selected, num_lines, panic, terminal, frame>>

BalanceEvent ==
    \E account \in EventAccounts, cash \in EventCash : BalanceStep(account, cash)

\* account_streamer.get_event() yields an Err or another message
OtherAccountEvent ==
    /\ pc = "select"
    /\ pc' = "draw"
    /\ UNCHANGED <<model, panic, terminal, frame>>
    /\ hist' = <<>>
    /\ event' = Received("account_other", "")

\* a press of 'q'
KeyQ ==
    /\ pc = "select"
    /\ pc' = "teardown"
    /\ UNCHANGED <<model, panic, terminal, frame>>
    /\ hist' = <<>>
    /\ event' = Received("q", "")

\* keyboard_event_stream.next() yields None
KeyboardEnd ==
    /\ pc = "select"
    /\ pc' = "teardown"
    /\ UNCHANGED <<model, panic, terminal, frame>>
    /\ hist' = <<>>
    /\ event' = Received("end", "")

\* a press of Down: app.next()
KeyDown ==
    /\ pc = "select"
    /\ IF IsSome(selected)
       THEN \E n1 \in NumLinesMinusOne(num_lines) :
               IF IsSome(n1)
               THEN /\ selected' = Some(NextIndex(selected, Unwrap(n1)))
                    /\ pc' = "draw"
                    /\ UNCHANGED panic
               ELSE /\ pc' = "panicked"
                    /\ panic' = "attempt to subtract with overflow"
                    /\ UNCHANGED selected
       ELSE /\ selected' = Some(NextIndex(selected, 0))
            /\ pc' = "draw"
            /\ UNCHANGED panic
    /\ UNCHANGED <<positions, groups, balances, num_lines, terminal, frame>>
    /\ hist' = Remember(hist, NavSnapshot("Down"))
    /\ event' = Received("down", "")

\* a press of Up: app.previous()
KeyUp ==
    /\ pc = "select"
    /\ IF IsSome(selected) /\ Unwrap(selected) = 0
       THEN \E n1 \in NumLinesMinusOne(num_lines) :
               IF IsSome(n1)
               THEN /\ selected' = Some(PreviousIndex(selected, Unwrap(n1)))
                    /\ pc' = "draw"
                    /\ UNCHANGED panic
               ELSE /\ pc' = "panicked"
                    /\ panic' = "attempt to subtract with overflow"
                    /\ UNCHANGED selected
       ELSE /\ selected' = Some(PreviousIndex(selected, 0))
            /\ pc' = "draw"
            /\ UNCHANGED panic
    /\ UNCHANGED <<positions, groups, balances, num_lines, terminal, frame>>
    /\ hist' = Remember(hist, NavSnapshot("Up"))
    /\ event' = Received("up", "")

\* a press of Space: app.toggle_group()
KeySpace ==
    /\ pc = "select"
    /\ groups' = ToggleGroup(groups, selected)
    /\ num_lines' = IF IsSome(selected) THEN UpdateNumLines(groups') ELSE num_lines
    /\ pc' = "draw"
    /\ UNCHANGED <<positions, balances, selected, panic, terminal, frame>>
    /\ hist' = Remember(hist, NavSnapshot("Space"))
    /\ event' = Received("space", "")

\* the keyboard branch leaving the loop on Some(Err(e))
OtherKeyboardEvent_Breaks ==
    /\ pc = "select"
    /\ pc' = "teardown"
    /\ UNCHANGED <<model, panic, terminal, frame>>
    /\ hist' = <<>>
    /\ event' = Received("key_other", "")

\* any other key press, a key event that is no press, an event that is no key event,
\* or Some(Err(e)) from the keyboard stream
OtherKeyboardEvent ==
    /\ pc = "select"
    /\ pc' = "draw"
    /\ UNCHANGED <<model, panic, terminal, frame>>
    /\ hist' = <<>>
    /\ event' = Received("key_other", "")

\* terminal.draw(|f| ui(f, &mut app))?
\* draw returns Err when the backend fails; ui unwinds out of it when it panics;
\* otherwise the frame is painted (tui hides the cursor for a frame that sets none)
Draw ==
    /\ pc = "draw"
    /\ \E io_ok \in BOOLEAN :
          IF ~io_ok
          THEN /\ pc' = "returned_err"
               /\ UNCHANGED <<panic, terminal, frame>>
          ELSE IF UiPanic(groups) # ""
          THEN /\ pc' = "panicked"
               /\ panic' = UiPanic(groups)
               /\ UNCHANGED <<terminal, frame>>
          ELSE /\ frame' = UiRows(groups, balances)
               /\ terminal' = [terminal EXCEPT !.cursor_hidden = TRUE]
               /\ pc' = "select"
               /\ UNCHANGED panic
    /\ UNCHANGED model
    /\ UNCHANGED hist
    /\ event' = NoEvent

\* disable_raw_mode()?; execute!(.., LeaveAlternateScreen)?; terminal.show_cursor()?; Ok(())
\* failed is the call that returns an error, 0 when none does
Teardown ==
    /\ pc = "teardown"
    /\ \E failed \in 0..3 :
          /\ terminal' = [raw_mode |-> IF failed = 1 THEN terminal.raw_mode ELSE FALSE,
                          alternate_screen |->
                              IF failed \in {1, 2} THEN terminal.alternate_screen ELSE FALSE,
                          cursor_hidden |->
                              IF failed = 0 THEN FALSE ELSE terminal.cursor_hidden]
          /\ pc' = IF failed = 0 THEN "returned_ok" ELSE "returned_err"
    /\ UNCHANGED <<model, panic, frame>>
    /\ UNCHANGED hist
    /\ UNCHANGED event

Next ==
    \/ EnableRawMode \/ EnterAlternateScreen \/ TerminalNew \/ AppNew
    \/ QuoteEvent \/ GreeksEvent \/ OtherDataEvent
    \/ BalanceEvent \/ OtherAccountEvent
    \/ KeyQ \/ KeyboardEnd \/ KeyDown \/ KeyUp \/ KeySpace \/ OtherKeyboardEvent
    \/ Draw \/ Teardown

Spec == Init /\ [][Next]_vars

----------------------------------------------------------------------------
(* Properties *)

\* main() has stopped
Stopped == pc \in {"returned_ok", "returned_err", "panicked"}

\* index i (from 0) is the row of a group header in the flattening of gs
IsHeaderIndex(gs, i) ==
    i < Len(GroupSectionRows(gs)) /\ GroupSectionRows(gs)[i + 1].kind = "group"

\* index i (from 0) is the header row of group k in the flattening of gs
IsHeaderOf(gs, i, k) ==
    IsHeaderIndex(gs, i) /\ GroupSectionRows(gs)[i + 1].group = k

\* gs with the open flags of a snapshot
WithOpen(gs, open) == [k \in DOMAIN gs |-> [gs[k] EXCEPT !.open = open[k]]]

\* C1 (as claimed): whenever selected is set it is a row of the flattening,
\* 0 <= selected < num_lines, also for a portfolio without groups, and
\* num_lines - 1 never underflows in next/previous.
C1_SelectedInRange ==
    /\ IsSome(selected) => Unwrap(selected) < num_lines
    /\ panic # "attempt to subtract with overflow"

\* C2: once App::new has run, num_lines is the number of rows of the groups
\* section: one per group plus one per record of every open group.
C2_NumLinesIsRowCount ==
    pc \in {"select", "draw", "teardown"} => num_lines = Len(GroupSectionRows(groups))

C2_Witness ==
    /\ pc = "select"
    /\ DOMAIN groups = {"AAPL", "MSFT"}
    /\ groups["AAPL"].open /\ ~groups["MSFT"].open
    /\ RecordCount(groups["AAPL"]) = 2
    /\ num_lines = 4

\* C3 (as claimed): a Quote for a known streamer symbol whose midpoint is NaN or
\* infinite leaves the record's current as it was, and the loop does not panic.
C3_BadQuoteKeepsCurrent ==
    [][\A sym \in QuoteSymbols, bid \in BidPrices, ask \in AskPrices :
          (/\ QuoteStep(sym, bid, ask)
           /\ ~IsSome(DecimalFromF64(F64Half(F64Add(bid, ask))))
           /\ IsSome(GetRecord(groups, sym)))
          => /\ pc' # "panicked"
             /\ groups'[Unwrap(GetRecord(groups, sym))].records[sym].current
                  = groups[Unwrap(GetRecord(groups, sym))].records[sym].current]_vars

\* some record of an open group carries a theta or delta that is NaN or infinite
BadGreeksShown(gs) ==
    \E k \in DOMAIN gs : gs[k].open /\ \E s \in DOMAIN gs[k].records :
        \/ gs[k].records[s].greeks.theta.cls # "finite"
        \/ gs[k].records[s].greeks.delta.cls # "finite"

\* C4 (as claimed): after a Greeks event that leaves a NaN or infinite theta or
\* delta on a record of an open group (hist is empty: the event handled last was
\* no key press), the render that follows completes: ui does not panic.
C4_BadGreeksRender ==
    [][(pc = "draw" /\ hist = <<>> /\ BadGreeksShown(groups))
          => panic' # "unwrap on None"]_vars

\* C5 (as claimed): with at least one group and position_total = 0 the render does
\* not crash (and shows 0.00% where the numerator is 0).
C5_ZeroTotalRender ==
    [][(pc = "draw" /\ DOMAIN groups # {} /\ PositionTotal(groups) = 0)
          => panic' # "division by zero"]_vars

\* C6 (as claimed): whenever main() has stopped the terminal is restored: raw mode
\* off, alternate screen left, cursor shown.
C6_TerminalRestored ==
    Stopped => (~terminal.raw_mode /\ ~terminal.alternate_screen /\ ~terminal.cursor_hidden)

\* the last two key presses were Down then Up, one after the other, and both ran
DownThenUp ==
    /\ Len(hist) = 2
    /\ hist[1].key = "Down" /\ hist[2].key = "Up"
    /\ panic = ""
    /\ hist[1].num_lines >= 2

\* C7 (as claimed): with num_lines >= 2, next and then previous leave selected as
\* it was, whether it was unset or set to an index in range.
C7_Original ==
    (DownThenUp /\ (IsSome(hist[1].selected) => Unwrap(hist[1].selected) < hist[1].num_lines))
        => selected = hist[1].selected

\* C7 (amended): with num_lines >= 2 and selected set to an index in range, next
\* and then previous leave selected as it was.
C7_NextThenPrevious ==
    (DownThenUp /\ IsSome(hist[1].selected)
                /\ Unwrap(hist[1].selected) < hist[1].num_lines)
        => selected = hist[1].selected

\* Down pressed on the last row (it wraps to 0), then Up
C7_Witness ==
    /\ DownThenUp
    /\ IsSome(hist[1].selected)
    /\ Unwrap(hist[1].selected) = hist[1].num_lines - 1
    /\ hist[2].selected = Some(0)

\* the last two key presses were Space twice, the first one on a group header
SpaceTwiceOnHeader ==
    /\ Len(hist) = 2
    /\ hist[1].key = "Space" /\ hist[2].key = "Space"
    /\ IsSome(hist[1].selected)
    /\ IsHeaderIndex(WithOpen(groups, hist[1].open), Unwrap(hist[1].selected))

\* C8: toggle_group twice in a row on a group header restores every group's open
\* flag, num_lines and selected.
C8_ToggleTwice ==
    SpaceTwiceOnHeader =>
        /\ \A k \in DOMAIN groups : groups[k].open = hist[1].open[k]
        /\ num_lines = hist[1].num_lines
        /\ selected = hist[1].selected

\* the header of the second group, below the open first group, toggled twice
C8_Witness ==
    /\ SpaceTwiceOnHeader
    /\ hist[1].selected = Some(3)
    /\ hist[1].open["AAPL"] /\ ~hist[1].open["MSFT"]
    /\ hist[2].open["MSFT"]

\* the last key press was Space
SpaceLast == hist # <<>> /\ hist[Len(hist)].key = "Space"
BeforeSpace == hist[Len(hist)]

\* C9: toggle_group flips exactly the group whose header is the selected row of
\* the current flattening, and nothing when selected is unset or is the row of a
\* record; num_lines then stays too.
C9_ToggleFrame ==
    SpaceLast =>
        LET before == WithOpen(groups, BeforeSpace.open)
            sel == BeforeSpace.selected
        IN  /\ \A k \in DOMAIN groups :
                  (groups[k].open # before[k].open)
                      <=> (IsSome(sel) /\ IsHeaderOf(before, Unwrap(sel), k))
            /\ (~IsSome(sel) \/ ~IsHeaderIndex(before, Unwrap(sel)))
                  => num_lines = BeforeSpace.num_lines

\* Space on the header of the second group, which sits below the records of the first
C9_Witness ==
    /\ SpaceLast
    /\ BeforeSpace.selected = Some(1)
    /\ DOMAIN groups = {"AAPL", "MSFT"}
    /\ ~BeforeSpace.open["AAPL"] /\ RecordCount(groups["AAPL"]) = 2
    /\ groups["MSFT"].open

\* the fields of the records that bootstrap sets and the loop never writes
Static(gs) ==
    [k \in DOMAIN gs |-> [s \in DOMAIN gs[k].records |->
        [symbol |-> gs[k].records[s].symbol,
         open |-> gs[k].records[s].open,
         amount |-> gs[k].records[s].amount,
         multiplier |-> gs[k].records[s].multiplier,
         direction |-> gs[k].records[s].direction]]]

\* C10: the group keys, the record keys of every group and each record's symbol,
\* open price, amount, multiplier and direction stay as bootstrap built them.
C10_EntitiesFixed == Static(groups) = Static(BuildRecords(positions, EmptyMap))

\* a quote, a Greeks event, a balance and a toggle have all left their mark
C10_Witness ==
    /\ pc = "select"
    /\ "AAPL" \in DOMAIN groups /\ groups["AAPL"].open
    /\ DOMAIN groups["AAPL"].records = {".AAPL", ".AAPL_C"}
    /\ groups["AAPL"].records[".AAPL"].current = 2425
    /\ groups["AAPL"].records[".AAPL_C"].greeks.theta = F(-120)
    /\ "A3" \in DOMAIN balances

\* the event is one the loop ignores: a stream error or another payload, an account
\* event that is no balance, or a Quote or Greeks event whose symbol keys no record
Ignored(e, gs) ==
    \/ e.kind \in {"data_other", "account_other"}
    \/ e.kind \in {"quote", "greeks"} /\ ~IsSome(GetRecord(gs, e.key))

\* C11: an ignored market-data or account event leaves every current, greeks,
\* balance and open flag, selected and num_lines unchanged, and the loop goes on
\* to draw the frame.
C11_IgnoredEventFrame ==
    [][Ignored(event', groups)
          => /\ UNCHANGED <<groups, balances, selected, num_lines>>
             /\ pc' = "draw"]_vars

\* a Quote for a symbol that keys no record, with a group open and a row selected
C11_Witness ==
    /\ pc = "draw"
    /\ event = Received("quote", ".UNKNOWN")
    /\ IsSome(selected)
    /\ \E k \in DOMAIN groups : groups[k].open
    /\ frame = UiRows(groups, balances)

\* the midpoint (bid + ask) / 2 as f64
Midpoint(bid, ask) == F64Half(F64Add(bid, ask))

\* C12 (as claimed): every handled event leaves each field at the value of the
\* last event delivered for it: a Quote sets current to its midpoint when that is
\* finite and leaves it otherwise, a Greeks event sets greeks, a balance sets the
\* account's balance, and none of them touches another record or account, so the
\* outcome does not depend on how sources and symbols interleave.
C12_LastValueWins ==
    [][/\ \A sym \in QuoteSymbols, bid \in BidPrices, ask \in AskPrices :
            (QuoteStep(sym, bid, ask) /\ IsSome(GetRecord(groups, sym)))
            => LET k == Unwrap(GetRecord(groups, sym))
               IN  /\ groups'[k].records[sym].current =
                         IF Midpoint(bid, ask).cls = "finite"
                         THEN Midpoint(bid, ask).v
                         ELSE groups[k].records[sym].current
                   /\ \A g \in DOMAIN groups : \A s \in DOMAIN groups[g].records :
                         (g # k \/ s # sym) => groups'[g].records[s] = groups[g].records[s]
       /\ \A sym \in GreeksSymbols, theta \in Thetas, delta \in Deltas :
            (GreeksStep(sym, theta, delta) /\ IsSome(GetRecord(groups, sym)))
            => LET k == Unwrap(GetRecord(groups, sym))
               IN  /\ groups'[k].records[sym].greeks = [theta |-> theta, delta |-> delta]
                   /\ groups'[k].records[sym].current = groups[k].records[sym].current
       /\ \A account \in EventAccounts, cash \in EventCash :
            BalanceStep(account, cash) => balances'[account] = cash]_vars

\* C13 (as claimed): an event that does not end the loop is followed by one render
\* before the next event is taken, and unless terminal.draw fails with an I/O
\* error that render paints the frame of the state the event left.
C13_EventThenFrame ==
    [][/\ (pc = "select" /\ pc' \notin {"teardown", "panicked"}) => pc' = "draw"
       /\ pc = "draw" => \/ pc' = "returned_err"
                         \/ pc' = "select" /\ frame' = UiRows(groups, balances)]_vars

\* C14: 'q' and the end of the keyboard stream leave the loop for the teardown,
\* after which no event is handled and nothing of the portfolio or the navigation
\* changes; any other keyboard event that is not Down, Up or Space changes nothing
\* of them and the loop goes on to draw.
C14_KeyboardExit ==
    [][/\ (pc = "select" /\ event'.kind \in {"q", "end"}) => pc' = "teardown"
       /\ (pc = "teardown" \/ Stopped)
            => /\ pc' \notin {"select", "draw"}
               /\ event' = event
               /\ UNCHANGED <<groups, balances, selected, num_lines>>
       /\ (pc = "select" /\ event'.kind = "key_other")
            => /\ pc' = "draw"
               /\ UNCHANGED <<groups, balances, selected, num_lines>>]_vars

\* 'q' was pressed after frames were drawn, and main returned Ok
C14_Witness ==
    /\ pc = "returned_ok"
    /\ event.kind = "q"
    /\ frame # <<>>
    /\ IsSome(selected)

\* C15: a balance event sets balances[account_number] to cash_balance, creating
\* the entry when the account is new, and leaves the other accounts, the groups,
\* selected and num_lines as they were.
C15_BalanceLastWrite ==
    [][\A account \in EventAccounts, cash \in EventCash :
          BalanceStep(account, cash)
          => /\ DOMAIN balances' = DOMAIN balances \cup {account}
             /\ balances'[account] = cash
             /\ \A a \in DOMAIN balances : a # account => balances'[a] = balances[a]
             /\ UNCHANGED <<groups, selected, num_lines>>]_vars

\* a balance for an account first seen in the stream, after one for a known account
C15_Witness ==
    /\ pc = "draw"
    /\ event = Received("balance", "A3")
    /\ DOMAIN balances = {"A1", "A2", "A3"}
    /\ balances["A1"] = 450000
    /\ balances["A2"] = 700000
    /\ balances["A3"] = 450000

\* C16 (as claimed): in every frame drawn the highlighted row is a group header or
\* the row of a record of an open group, never the blank, CASH, account or TOTAL row.
C16_HighlightInGroups ==
    (pc = "select" /\ frame # <<>> /\ IsSome(HighlightedRow(frame, selected)))
        => Unwrap(HighlightedRow(frame, selected)).kind \in {"group", "position"}

\* round2(current * amount * multiplier * sign), sign -1 for Short, 1 for Long and Zero
SignedValue(rec) ==
    RoundDp2(rec.current * rec.amount * rec.multiplier *
             (CASE rec.direction = "Short" -> -1
                [] rec.direction = "Long" -> 1
                [] rec.direction = "Zero" -> 1))

\* round2((current - open) * amount * multiplier * sign)
SignedProfit(rec) ==
    RoundDp2((rec.current - rec.open) * rec.amount * rec.multiplier *
             (CASE rec.direction = "Short" -> -1
                [] rec.direction = "Long" -> 1
                [] rec.direction = "Zero" -> 1))

\* the sum of the signed values of the records of group g
GroupSignedValue(g) ==
    LET ks == RecordKeys(g)
    IN  SumSeq([i \in DOMAIN ks |-> SignedValue(g.records[ks[i]])])

\* the sum of the signed values of all records
AllSignedValue(gs) ==
    LET ks == GroupKeys(gs)
    IN  SumSeq([i \in DOMAIN ks |-> GroupSignedValue(gs[ks[i]])])

\* the sum of all balances
AllCash(bals) ==
    LET as == SortedKeys(DOMAIN bals, AccountOrder)
    IN  SumSeq([i \in DOMAIN as |-> bals[as[i]]])

\* C17: in every frame drawn, each record's NET LIQ and PROFIT carry the sign -1
\* iff its direction is Short, each group header's NET LIQ is the sum of its
\* records' signed values whether the group is open or not, TOTAL is the sum of
\* the headers' NET LIQ plus all balances, and PORT % divides by the position
\* total without cash.
C17_FrameSums ==
    (pc = "select" /\ frame # <<>>) =>
        LET section == GroupSectionRows(groups)
            headers == {i \in DOMAIN section : section[i].kind = "group"}
            header_sum == SumSeq([i \in DOMAIN section |->
                             IF i \in headers THEN frame[i].net_liq ELSE 0])
        IN  /\ \A i \in DOMAIN section :
                  /\ frame[i].kind = section[i].kind
                  /\ IF section[i].kind = "group"
                     THEN /\ frame[i].net_liq = GroupSignedValue(groups[section[i].group])
                          /\ frame[i].port =
                                PortPercent(frame[i].net_liq, AllSignedValue(groups))
                     ELSE LET rec == groups[section[i].group].records[section[i].record]
                          IN  /\ frame[i].net_liq = SignedValue(rec)
                              /\ frame[i].profit = SignedProfit(rec)
                              /\ frame[i].port =
                                    PortPercent(frame[i].net_liq, AllSignedValue(groups))
            /\ frame[Len(frame)].kind = "total"
            /\ frame[Len(frame)].total = header_sum + AllCash(balances)

\* a frame with an open group holding a Short record, a closed group and a Zero
\* record that a quote has given a value
C17_Witness ==
    /\ pc = "select" /\ frame # <<>>
    /\ DOMAIN groups = {"AAPL", "MSFT"}
    /\ groups["AAPL"].open /\ ~groups["MSFT"].open
    /\ ".AAPL_C" \in DOMAIN groups["AAPL"].records
    /\ groups["MSFT"].records[".MSFT"].current = 2425
    /\ frame[Len(frame)].total = 2420 - 600000 + 500000 + 700000

SpaceOnHeaderOf(e, g) ==
    /\ e.key = "Space"
    /\ IsSome(e.selected)
    /\ IsHeaderOf(WithOpen(groups, e.open), Unwrap(e.selected), g)

\* the group after g in sorted order, g itself when g is the last one
GroupAfter(g) ==
    LET ks == GroupKeys(groups)
        n == CHOOSE i \in DOMAIN ks : ks[i] = g
    IN  IF n = Len(ks) THEN g ELSE ks[n + 1]

\* C19: toggle_group on the header of g changes num_lines by the number of
\* records of g (down on collapse, up on expand) and leaves selected on g's
\* header; after a collapse, next moves to the header of the following group, or
\* to row 0 when g is the last group.
C19_ToggleThenNext ==
    \A g \in DOMAIN groups :
        /\ (SpaceLast /\ SpaceOnHeaderOf(BeforeSpace, g)) =>
              /\ num_lines - BeforeSpace.num_lines =
                    IF BeforeSpace.open[g] THEN 0 - RecordCount(groups[g])
                    ELSE RecordCount(groups[g])
              /\ selected = BeforeSpace.selected
              /\ IsHeaderOf(groups, Unwrap(selected), g)
        /\ (/\ Len(hist) = 2 /\ SpaceOnHeaderOf(hist[1], g) /\ hist[1].open[g]
            /\ hist[2].key = "Down" /\ panic = "") =>
              IF GroupAfter(g) = g THEN selected = Some(0)
              ELSE IsSome(selected) /\ IsHeaderOf(groups, Unwrap(selected), GroupAfter(g))

\* AAPL with two records collapsed on its header, then Down to the header of MSFT
C19_Witness ==
    /\ Len(hist) = 2
    /\ DOMAIN groups = {"AAPL", "MSFT"}
    /\ SpaceOnHeaderOf(hist[1], "AAPL") /\ hist[1].open["AAPL"]
    /\ RecordCount(groups["AAPL"]) = 2
    /\ hist[1].num_lines = 4
    /\ hist[2].key = "Down" /\ hist[2].num_lines = 2
    /\ selected = Some(1)

\* the number of records in the portfolio
TotalRecords(gs) ==
    LET ks == GroupKeys(gs)
    IN  SumSeq([i \in DOMAIN ks |-> RecordCount(gs[ks[i]])])

\* C20 (as claimed): bootstrap makes one record per downloaded position, also when
\* two accounts hold the same instrument.
C20_OneRecordPerPosition == TotalRecords(groups) = Len(positions)

====
